---- MODULE Spec2Model ----
(***************************************************************************)
(* Model of myMPD's song tag store and tag rendering                       *)
(* (src/mpd_client/mpd_client_tags.c) and of the atomic file writer        *)
(* (src/lib/filehandler.c).                                                *)
(*                                                                         *)
(* C strings and sds strings are sequences of one-character strings.       *)
(***************************************************************************)
EXTENDS Integers, Sequences, FiniteSets, TLC

VARIABLES
    song,       \* struct mpd_song: [uri, tags], tags[type] is the value list
    inserted,   \* history: per tag type, the values of the successful adds
    last,       \* the last call on the song and what it returned
    reg,        \* check_tags: its arguments, locals and position
    file        \* write_data_to_file: the file system, locals and position

vars == <<song, inserted, last, reg, file>>

\* ------------------------------------------------------------------ bounds

\* a song holds at most this many tag values in total
MaxSongValues == 3
\* a configuration string names at most this many tokens
MaxTokens == 3
\* write_data_to_file is called at most this many times
MaxWrites == 2

\* ------------------------------------------------------- enum mpd_tag_type

MPD_TAG_UNKNOWN == -1
MPD_TAG_ARTIST == 0
MPD_TAG_ALBUM == 1
MPD_TAG_ALBUM_ARTIST == 2
MPD_TAG_TITLE == 3
MPD_TAG_NAME == 5
MPD_TAG_GENRE == 6
MPD_TAG_COMPOSER == 8
MPD_TAG_PERFORMER == 9
MPD_TAG_MUSICBRAINZ_ARTISTID == 12
MPD_TAG_MUSICBRAINZ_ALBUMARTISTID == 14
MPD_TAG_ARTIST_SORT == 18
MPD_TAG_ALBUM_ARTIST_SORT == 19
MPD_TAG_ALBUM_SORT == 20
MPD_TAG_CONDUCTOR == 25
MPD_TAG_COMPOSER_SORT == 26
MPD_TAG_ENSEMBLE == 27
MPD_TAG_COUNT == 31

TagTypes == 0 .. (MPD_TAG_COUNT - 1)

\* ----------------------------------------------------------------- strings

\* the null pointer: no C string is this sequence
NULL == <<"NULL">>

DQ == "\""
BS == "\\"

Upper == <<"A", "B", "C", "D", "E", "F", "G", "H", "I", "J", "K", "L", "M",
           "N", "O", "P", "Q", "R", "S", "T", "U", "V", "W", "X", "Y", "Z">>
Lower == <<"a", "b", "c", "d", "e", "f", "g", "h", "i", "j", "k", "l", "m",
           "n", "o", "p", "q", "r", "s", "t", "u", "v", "w", "x", "y", "z">>

\* strcmp(a, b) == 0
StrEq(a, b) == a = b

\* strstr(haystack, needle) != NULL
StrStr(haystack, needle) ==
    \E i \in 1 .. (Len(haystack) - Len(needle) + 1) :
        SubSeq(haystack, i, i + Len(needle) - 1) = needle

\* the position of the first c in s from position i on, 0 if there is none
RECURSIVE IndexOf(_, _, _)
IndexOf(s, c, i) ==
    IF i > Len(s) THEN 0
    ELSE IF s[i] = c THEN i
    ELSE IndexOf(s, c, i + 1)

\* the position of the last c in s at or before position i, 0 if there is none
RECURSIVE LastIndexOf(_, _, _)
LastIndexOf(s, c, i) ==
    IF i < 1 THEN 0
    ELSE IF s[i] = c THEN i
    ELSE LastIndexOf(s, c, i - 1)

\* the elements sdssplitlen cuts a non-empty rest into: the text before each
\* separator and the final element, which may be empty
RECURSIVE SplitRest(_, _)
SplitRest(s, sep) ==
    IF IndexOf(s, sep, 1) = 0 THEN <<s>>
    ELSE <<SubSeq(s, 1, IndexOf(s, sep, 1) - 1)>>
         \o SplitRest(SubSeq(s, IndexOf(s, sep, 1) + 1, Len(s)), sep)

\* sdssplitlen(s, len, sep, 1, &count): no element at all for the empty string
sdssplitlen(s, sep) ==
    IF Len(s) = 0 THEN <<>> ELSE SplitRest(s, sep)

\* sdstrim(s, cset) for a one-character cset
RECURSIVE TrimLeft(_, _)
TrimLeft(s, c) ==
    IF s # <<>> /\ Head(s) = c THEN TrimLeft(Tail(s), c) ELSE s

RECURSIVE TrimRight(_, _)
TrimRight(s, c) ==
    IF s # <<>> /\ s[Len(s)] = c THEN TrimRight(SubSeq(s, 1, Len(s) - 1), c) ELSE s

sdstrim(s, c) == TrimRight(TrimLeft(s, c), c)

\* one character of sds_utf8_tolower
ToLowerChar(c) ==
    IF \E i \in 1 .. Len(Upper) : Upper[i] = c
    THEN Lower[CHOOSE i \in 1 .. Len(Upper) : Upper[i] = c]
    ELSE c

\* sds_utf8_tolower(s)
sds_utf8_tolower(s) == [i \in 1 .. Len(s) |-> ToLowerChar(s[i])]

\* one character of sds_catjson_plain: quote and backslash are escaped
EscapeChar(c) ==
    IF c = DQ THEN <<BS, DQ>>
    ELSE IF c = BS THEN <<BS, BS>>
    ELSE <<c>>

\* sds_catjson_plain(s, p, len): appends p json-escaped, without quotes
RECURSIVE sds_catjson_plain(_, _)
sds_catjson_plain(s, p) ==
    IF p = <<>> THEN s
    ELSE sds_catjson_plain(s \o EscapeChar(Head(p)), Tail(p))

\* sds_catjson(s, p, len): appends p json-escaped and enclosed in quotes
sds_catjson(s, p) == sds_catjson_plain(s \o <<DQ>>, p) \o <<DQ>>

\* basename_uri(uri): the directory and the extension are removed
StripDir(uri) ==
    SubSeq(uri, LastIndexOf(uri, "/", Len(uri)) + 1, Len(uri))

StripExt(name) ==
    IF LastIndexOf(name, ".", Len(name)) = 0 THEN name
    ELSE SubSeq(name, 1, LastIndexOf(name, ".", Len(name)) - 1)

basename_uri(uri) == StripExt(StripDir(uri))

\* mpd_tag_name(type): the name table of enum mpd_tag_type
mpd_tag_type_names == <<
    <<"A", "r", "t", "i", "s", "t">>,
    <<"A", "l", "b", "u", "m">>,
    <<"A", "l", "b", "u", "m", "A", "r", "t", "i", "s", "t">>,
    <<"T", "i", "t", "l", "e">>,
    <<"T", "r", "a", "c", "k">>,
    <<"N", "a", "m", "e">>,
    <<"G", "e", "n", "r", "e">>,
    <<"D", "a", "t", "e">>,
    <<"C", "o", "m", "p", "o", "s", "e", "r">>,
    <<"P", "e", "r", "f", "o", "r", "m", "e", "r">>,
    <<"C", "o", "m", "m", "e", "n", "t">>,
    <<"D", "i", "s", "c">>,
    <<"M", "U", "S", "I", "C", "B", "R", "A", "I", "N", "Z", "_", "A", "R", "T", "I", "S", "T", "I", "D">>,
    <<"M", "U", "S", "I", "C", "B", "R", "A", "I", "N", "Z", "_", "A", "L", "B", "U", "M", "I", "D">>,
    <<"M", "U", "S", "I", "C", "B", "R", "A", "I", "N", "Z", "_", "A", "L", "B", "U", "M", "A", "R", "T", "I", "S", "T", "I", "D">>,
    <<"M", "U", "S", "I", "C", "B", "R", "A", "I", "N", "Z", "_", "T", "R", "A", "C", "K", "I", "D">>,
    <<"M", "U", "S", "I", "C", "B", "R", "A", "I", "N", "Z", "_", "R", "E", "L", "E", "A", "S", "E", "T", "R", "A", "C", "K", "I", "D">>,
    <<"O", "r", "i", "g", "i", "n", "a", "l", "D", "a", "t", "e">>,
    <<"A", "r", "t", "i", "s", "t", "S", "o", "r", "t">>,
    <<"A", "l", "b", "u", "m", "A", "r", "t", "i", "s", "t", "S", "o", "r", "t">>,
    <<"A", "l", "b", "u", "m", "S", "o", "r", "t">>,
    <<"L", "a", "b", "e", "l">>,
    <<"M", "U", "S", "I", "C", "B", "R", "A", "I", "N", "Z", "_", "W", "O", "R", "K", "I", "D">>,
    <<"G", "r", "o", "u", "p", "i", "n", "g">>,
    <<"W", "o", "r", "k">>,
    <<"C", "o", "n", "d", "u", "c", "t", "o", "r">>,
    <<"C", "o", "m", "p", "o", "s", "e", "r", "S", "o", "r", "t">>,
    <<"E", "n", "s", "e", "m", "b", "l", "e">>,
    <<"M", "o", "v", "e", "m", "e", "n", "t">>,
    <<"M", "o", "v", "e", "m", "e", "n", "t", "N", "u", "m", "b", "e", "r">>,
    <<"L", "o", "c", "a", "t", "i", "o", "n">> >>

mpd_tag_name(type) == mpd_tag_type_names[type + 1]

\* case-insensitive comparison of two names
NameEqIgnoreCase(a, b) == sds_utf8_tolower(a) = sds_utf8_tolower(b)

\* mpd_tag_name_iparse(name): the first type whose name is name, ignoring case
mpd_tag_name_iparse(name) ==
    IF \E t \in TagTypes : NameEqIgnoreCase(name, mpd_tag_name(t))
    THEN CHOOSE t \in TagTypes :
            /\ NameEqIgnoreCase(name, mpd_tag_name(t))
            /\ \A u \in TagTypes : NameEqIgnoreCase(name, mpd_tag_name(u)) => t <= u
    ELSE MPD_TAG_UNKNOWN

\* --------------------------------------------------------------- tag store

\* struct mpd_tag_value: the head node of a list is embedded in the song, the
\* further nodes are linked through next; a list is the sequence of its nodes
Node(v) == [value |-> v]
EmptyList == <<Node(NULL)>>

\* mpd_song_get_tag(song, type, idx)
mpd_song_get_tag(s, type, idx) ==
    IF type < 0 \/ type >= MPD_TAG_COUNT THEN NULL
    ELSE IF s.tags[type][1].value = NULL THEN NULL
    ELSE IF idx + 1 > Len(s.tags[type]) THEN NULL
    ELSE s.tags[type][idx + 1].value

\* the values of a tag type as mpd_song_get_tag enumerates them
RECURSIVE TagValuesFrom(_, _, _)
TagValuesFrom(s, type, idx) ==
    IF mpd_song_get_tag(s, type, idx) = NULL THEN <<>>
    ELSE <<mpd_song_get_tag(s, type, idx)>> \o TagValuesFrom(s, type, idx + 1)

TagValueList(s, type) == TagValuesFrom(s, type, 0)

\* a mutant: the last node of the list is not compared
RECURSIVE HasDuplicateSkipLast(_, _, _)
HasDuplicateSkipLast(list, i, value) ==
    IF i < Len(list)
    THEN IF StrEq(list[i].value, value) THEN TRUE
         ELSE HasDuplicateSkipLast(list, i + 1, value)
    ELSE FALSE

\* the loop of mympd_mpd_song_add_tag_dedup: walks the nodes from node i and
\* compares each value, the last node's included
RECURSIVE HasDuplicate(_, _, _)
HasDuplicate(list, i, value) ==
    IF i < Len(list)
    THEN IF StrEq(list[i].value, value) THEN TRUE
         ELSE HasDuplicate(list, i + 1, value)
    ELSE StrEq(list[i].value, value)

\* a mutant: the new node is linked behind the head instead of the last node
LinkNodeAfterHead(list, value) ==
    <<list[1], Node(value)>> \o SubSeq(list, 2, Len(list))

\* prev->next = tag: the new node is linked behind the last node
LinkNode(list, value) == Append(list, Node(value))

\* a mutant: the node is linked although strdup failed
StoreFailedLinked(tags, type) ==
    IF tags[type][1].value = NULL THEN tags
    ELSE [tags EXCEPT ![type] = Append(@, Node(NULL))]

\* the store after strdup returned NULL: an empty list's head gets next = NULL,
\* a new node is freed again and never linked
StoreFailed(tags, type) ==
    IF tags[type][1].value = NULL
    THEN [tags EXCEPT ![type] = <<@[1]>>]
    ELSE tags

\* mympd_mpd_song_add_tag_dedup(song, type, value); strdup_ok is whether
\* strdup can allocate. Returns the tags, the return code and what strdup did.
mympd_mpd_song_add_tag_dedup(tags, type, value, strdup_ok) ==
    IF type < 0 \/ type >= MPD_TAG_COUNT
    THEN [tags |-> tags, rc |-> FALSE, alloc |-> "none"]
    ELSE IF tags[type][1].value = NULL
    THEN IF strdup_ok
         THEN [tags |-> [tags EXCEPT ![type] = <<Node(value)>>],
               rc |-> TRUE, alloc |-> "ok"]
         ELSE [tags |-> StoreFailed(tags, type), rc |-> FALSE, alloc |-> "failed"]
    ELSE IF HasDuplicate(tags[type], 1, value)
    THEN [tags |-> tags, rc |-> FALSE, alloc |-> "none"]
    ELSE IF strdup_ok
         THEN [tags |-> [tags EXCEPT ![type] = LinkNode(@, value)],
               rc |-> TRUE, alloc |-> "ok"]
         ELSE [tags |-> StoreFailed(tags, type), rc |-> FALSE, alloc |-> "failed"]

\* --------------------------------------------------------------- rendering

\* is_multivalue_tag(tag)
is_multivalue_tag(tag) ==
    tag \in {MPD_TAG_ARTIST, MPD_TAG_ARTIST_SORT, MPD_TAG_ALBUM_ARTIST,
             MPD_TAG_ALBUM_ARTIST_SORT, MPD_TAG_GENRE, MPD_TAG_COMPOSER,
             MPD_TAG_COMPOSER_SORT, MPD_TAG_PERFORMER, MPD_TAG_CONDUCTOR,
             MPD_TAG_ENSEMBLE, MPD_TAG_MUSICBRAINZ_ARTISTID,
             MPD_TAG_MUSICBRAINZ_ALBUMARTISTID}

\* get_sort_tag(tag)
get_sort_tag(tag) ==
    CASE tag = MPD_TAG_ARTIST -> MPD_TAG_ARTIST_SORT
      [] tag = MPD_TAG_ALBUM_ARTIST -> MPD_TAG_ALBUM_ARTIST_SORT
      [] tag = MPD_TAG_ALBUM -> MPD_TAG_ALBUM_SORT
      [] tag = MPD_TAG_COMPOSER -> MPD_TAG_COMPOSER_SORT
      [] OTHER -> tag

\* the result of a private renderer: the buffer and *value_count
Rendered(out, count) == [out |-> out, count |-> count]

\* the loop of _mpd_client_get_tag_value_string from value number count on
RECURSIVE ValueStringLoop(_, _, _, _)
ValueStringLoop(s, tag, tag_values, count) ==
    IF mpd_song_get_tag(s, tag, count) = NULL
    THEN Rendered(tag_values, count)
    ELSE ValueStringLoop(s, tag,
            (IF count > 0 THEN tag_values \o <<",", " ">> ELSE tag_values)
                \o mpd_song_get_tag(s, tag, count),
            count + 1)

\* _mpd_client_get_tag_value_string(song, tag, tag_values, &value_count)
get_tag_value_string_(s, tag, tag_values) ==
    ValueStringLoop(s, tag, tag_values, 0)

\* the semicolon loop of _mpd_client_get_tag_values over the tokens from j on
RECURSIVE TokenLoop(_, _, _)
TokenLoop(tokens, j, tag_values) ==
    IF j > Len(tokens) THEN Rendered(tag_values, Len(tokens))
    ELSE TokenLoop(tokens, j + 1,
            sds_catjson(IF j > 1 THEN tag_values \o <<",">> ELSE tag_values,
                        sdstrim(tokens[j], " ")))

\* the array loop of _mpd_client_get_tag_values from value number count on
RECURSIVE ArrayLoop(_, _, _, _)
ArrayLoop(s, tag, tag_values, count) ==
    IF mpd_song_get_tag(s, tag, count) = NULL
    THEN Rendered(tag_values, count)
    ELSE ArrayLoop(s, tag,
            sds_catjson(IF count > 0 THEN tag_values \o <<",">> ELSE tag_values,
                        mpd_song_get_tag(s, tag, count)),
            count + 1)

\* the string loop of _mpd_client_get_tag_values from value number count on
RECURSIVE PlainLoop(_, _, _, _)
PlainLoop(s, tag, tag_values, count) ==
    IF mpd_song_get_tag(s, tag, count) = NULL
    THEN Rendered(tag_values, count)
    ELSE PlainLoop(s, tag,
            sds_catjson_plain(
                IF count > 0 THEN tag_values \o <<",", " ">> ELSE tag_values,
                mpd_song_get_tag(s, tag, count)),
            count + 1)

\* a mutant: the values are split whenever the first one exists
UseSplitAlways(s, tag) ==
    /\ tag \in {MPD_TAG_MUSICBRAINZ_ALBUMARTISTID, MPD_TAG_MUSICBRAINZ_ARTISTID}
    /\ mpd_song_get_tag(s, tag, 0) # NULL

\* the condition of the semicolon workaround: a MusicBrainz id tag that holds
\* a first value and no second one
UseSplit(s, tag) ==
    /\ tag \in {MPD_TAG_MUSICBRAINZ_ALBUMARTISTID, MPD_TAG_MUSICBRAINZ_ARTISTID}
    /\ mpd_song_get_tag(s, tag, 0) # NULL
    /\ mpd_song_get_tag(s, tag, 1) = NULL

\* the end of _mpd_client_get_tag_values: the closing character is appended,
\* or the buffer is cut back to org_len when no value was written
CloseOrCut(r, tag_values, closing) ==
    IF r.count > 0 THEN Rendered(r.out \o <<closing>>, r.count)
    ELSE Rendered(SubSeq(r.out, 1, Len(tag_values)), r.count)

\* _mpd_client_get_tag_values(song, tag, tag_values, multi, &value_count)
get_tag_values_(s, tag, tag_values, multi) ==
    IF multi
    THEN IF UseSplit(s, tag)
         THEN CloseOrCut(
                TokenLoop(sdssplitlen(mpd_song_get_tag(s, tag, 0), ";"), 1,
                          tag_values \o <<"[">>),
                tag_values, "]")
         ELSE CloseOrCut(ArrayLoop(s, tag, tag_values \o <<"[">>, 0),
                         tag_values, "]")
    ELSE CloseOrCut(PlainLoop(s, tag, tag_values \o <<DQ>>, 0), tag_values, DQ)

\* the tag whose empty value falls back to the name and the file name
FallbackTag(tag) == tag = MPD_TAG_TITLE

\* a mutant: the file name is used although Name holds values
get_tag_value_string_skip_name(s, tag, tag_values) ==
    LET r1 == get_tag_value_string_(s, tag, tag_values)
    IN  IF r1.count = 0 /\ tag = MPD_TAG_TITLE
        THEN basename_uri(r1.out \o s.uri)
        ELSE r1.out

\* mpd_client_get_tag_value_string(song, tag, tag_values): basename_uri works
\* on the whole buffer the uri was appended to
mpd_client_get_tag_value_string(s, tag, tag_values) ==
    LET r1 == get_tag_value_string_(s, tag, tag_values)
        r2 == get_tag_value_string_(s, MPD_TAG_NAME, r1.out)
    IN  IF r1.count = 0 /\ FallbackTag(tag)
        THEN IF r2.count = 0 THEN basename_uri(r2.out \o s.uri) ELSE r2.out
        ELSE r1.out

\* a mutant: an empty array is emitted for an empty multi-value tag
PlaceholderEmptyArray(multi) ==
    IF multi THEN <<"[", "]">> ELSE <<DQ, "-", DQ>>

\* the dash that replaces the value(s) of an empty tag
Placeholder(multi) ==
    IF multi THEN <<"[", DQ, "-", DQ, "]">> ELSE <<DQ, "-", DQ>>

\* mpd_client_get_tag_values(song, tag, tag_values)
mpd_client_get_tag_values(s, tag, tag_values) ==
    LET multi == is_multivalue_tag(tag)
        r1 == get_tag_values_(s, tag, tag_values, multi)
        r2 == get_tag_values_(s, MPD_TAG_NAME, r1.out, multi)
    IN  IF r1.count = 0
        THEN IF FallbackTag(tag)
             THEN IF r2.count = 0
                  THEN sds_catjson(r2.out, basename_uri(s.uri))
                  ELSE r2.out
             ELSE r1.out \o Placeholder(multi)
        ELSE r1.out

\* the loop of filter_mpd_song from column i on: value is never cleared
RECURSIVE FilterLoop(_, _, _, _, _, _)
FilterLoop(s, searchstr, tagcols, i, value, rc) ==
    IF i > Len(tagcols) THEN rc
    ELSE LET v == sds_utf8_tolower(
                    get_tag_values_(s, tagcols[i], value, FALSE).out)
         IN  FilterLoop(s, searchstr, tagcols, i + 1, v,
                        rc \/ StrStr(v, searchstr))

\* filter_mpd_song(song, searchstr, tagcols)
filter_mpd_song(s, searchstr, tagcols) ==
    IF Len(searchstr) = 0 THEN TRUE
    ELSE FilterLoop(s, searchstr, tagcols, 1, <<>>, FALSE)

\* ------------------------------------------------------------ song: inputs

\* the tag types add is called with: valid ones and the two out of range
AddTypes ==
    {MPD_TAG_UNKNOWN, MPD_TAG_ARTIST, MPD_TAG_TITLE, MPD_TAG_NAME,
     MPD_TAG_MUSICBRAINZ_ARTISTID, MPD_TAG_COUNT}

\* the tag values: "A; b", "b" followed by a quote, and the empty string
TagValues == {<<"A", ";", " ", "b">>, <<"b", DQ>>, <<>>}

\* the uri: "d/F.m"
URIs == {<<"d", "/", "F", ".", "m">>}

\* the tag types that are rendered
RenderTags ==
    {MPD_TAG_ARTIST, MPD_TAG_ALBUM, MPD_TAG_TITLE, MPD_TAG_NAME,
     MPD_TAG_MUSICBRAINZ_ARTISTID, MPD_TAG_MUSICBRAINZ_ALBUMARTISTID}

\* the buffers the renderers append to: empty and "x"
Buffers == {<<>>, <<"x">>}

\* the search strings, lower case
SearchStrs ==
    {<<>>, <<"b">>, <<"z">>, <<DQ>>, <<DQ, DQ, "b">>}

\* the column lists of filter_mpd_song
TagCols ==
    {<<>>, <<MPD_TAG_ARTIST>>, <<MPD_TAG_TITLE, MPD_TAG_NAME>>}

\* ----------------------------------------------------------- song: actions

RECURSIVE SumLen(_, _)
SumLen(tags, types) ==
    IF types = {} THEN 0
    ELSE LET t == CHOOSE x \in types : TRUE
         IN  (IF tags[t][1].value = NULL THEN 0 ELSE Len(tags[t]))
             + SumLen(tags, types \ {t})

\* the number of values a song holds
TotalValues(tags) == SumLen(tags, AddTypes \cap TagTypes)

NoCall == [op |-> "none"]

InitSong ==
    /\ song \in [uri : URIs, tags : {[t \in TagTypes |-> EmptyList]}]
    /\ inserted = [t \in AddTypes \cap TagTypes |-> <<>>]
    /\ last = NoCall

\* a call of mympd_mpd_song_add_tag_dedup
AddTag ==
    \E type \in AddTypes, value \in TagValues, strdup_ok \in BOOLEAN :
        LET r == mympd_mpd_song_add_tag_dedup(song.tags, type, value, strdup_ok)
        IN  /\ TotalValues(r.tags) <= MaxSongValues
            /\ song' = [song EXCEPT !.tags = r.tags]
            /\ inserted' = IF r.rc
                           THEN [inserted EXCEPT ![type] = Append(@, value)]
                           ELSE inserted
            /\ last' = [op |-> "add", type |-> type, value |-> value,
                        rc |-> r.rc, alloc |-> r.alloc,
                        again |-> /\ last.op = "add"
                                  /\ last.type = type
                                  /\ last.value = value]
            /\ UNCHANGED <<reg, file>>

\* a call of mpd_client_get_tag_value_string
GetTagValueString ==
    \E tag \in RenderTags, buf \in Buffers :
        /\ last' = [op |-> "string", tag |-> tag, buf |-> buf,
                    out |-> mpd_client_get_tag_value_string(song, tag, buf)]
        /\ UNCHANGED <<song, inserted, reg, file>>

\* a call of mpd_client_get_tag_values
GetTagValues ==
    \E tag \in RenderTags, buf \in Buffers :
        /\ last' = [op |-> "json", tag |-> tag, buf |-> buf,
                    out |-> mpd_client_get_tag_values(song, tag, buf)]
        /\ UNCHANGED <<song, inserted, reg, file>>

\* a call of filter_mpd_song
FilterSong ==
    \E searchstr \in SearchStrs, tagcols \in TagCols :
        /\ last' = [op |-> "filter", searchstr |-> searchstr, tagcols |-> tagcols,
                    rc |-> filter_mpd_song(song, searchstr, tagcols)]
        /\ UNCHANGED <<song, inserted, reg, file>>

\* no song is held; the registry and the file writer are not running
SongOff == [uri |-> <<>>]
RegOff == [pc |-> "off"]
FileOff == [pc |-> "off"]

Init == InitSong /\ reg = RegOff /\ file = FileOff

Next == AddTag \/ GetTagValueString \/ GetTagValues \/ FilterSong

\* the song: adds, renderings and searches in any order
Spec == Init /\ [][Next]_vars

\* ------------------------------------------------------------ song: claims

\* the number of elements of seq equal to v
RECURSIVE CountOf(_, _)
CountOf(seq, v) ==
    IF seq = <<>> THEN 0
    ELSE (IF Head(seq) = v THEN 1 ELSE 0) + CountOf(Tail(seq), v)

\* the strings of seq, each mapped by F, joined with sep
RECURSIVE JoinMapped(_, _, _)
JoinMapped(F(_), seq, sep) ==
    IF seq = <<>> THEN <<>>
    ELSE IF Len(seq) = 1 THEN F(seq[1])
    ELSE F(seq[1]) \o sep \o JoinMapped(F, Tail(seq), sep)

Plain(v) == v
Escaped(v) == sds_catjson_plain(<<>>, v)
Quoted(v) == <<DQ>> \o Escaped(v) \o <<DQ>>
TrimmedQuoted(v) == Quoted(sdstrim(v, " "))

IsSuffix(t, s) ==
    Len(t) <= Len(s) /\ SubSeq(s, Len(s) - Len(t) + 1, Len(s)) = t

\* this step is a call of add that repeats the call before it
RepeatedAdd ==
    /\ last.op = "add"
    /\ last'.op = "add"
    /\ last'.type = last.type
    /\ last'.value = last.value
    /\ last.type \in TagTypes

\* after the step the store holds the value once, the call returned false and
\* the store is what it was
SecondAddIsNoOp ==
    /\ last'.rc = FALSE
    /\ song' = song
    /\ CountOf(TagValueList(song', last'.type), last'.value) = 1

\* C1 as stated: calling add(song, c, v) twice in a row for a valid category
\* leaves exactly one stored value equal to v, and the second call returns
\* false without changing the store.
C1_DedupTwice == [][RepeatedAdd => SecondAddIsNoOp]_vars

\* C1 amended: when the first of the two calls did not fail to allocate, the
\* second call returns false, changes nothing and the store holds v once.
C1_DedupTwiceAllocated ==
    [][RepeatedAdd /\ last.alloc # "failed" => SecondAddIsNoOp]_vars

\* a second add of the same value to the same valid category was rejected
C1_Witness ==
    /\ last.op = "add"
    /\ last.again
    /\ last.type \in TagTypes
    /\ last.alloc = "none"
    /\ last.rc = FALSE
    /\ Len(TagValueList(song, last.type)) >= 2

\* every list is the history of its successful adds
ListsAreHistory ==
    \A t \in TagTypes :
        TagValueList(song, t) = IF t \in DOMAIN inserted THEN inserted[t] ELSE <<>>

\* a step in which add returned true appended the value to its list and left
\* the other lists alone
SuccessfulAddAppends ==
    last'.op = "add" /\ last'.rc /\ vars' # vars =>
        /\ last'.type \in TagTypes
        /\ TagValueList(song', last'.type)
              = Append(TagValueList(song, last'.type), last'.value)
        /\ \A t \in TagTypes \ {last'.type} :
              TagValueList(song', t) = TagValueList(song, t)

\* C2: each list holds its values in the order of their first successful
\* insertion: a successful add appends the value at the end of its category's
\* list and leaves the lists of all other categories unchanged.
C2_OrderPreserved == []ListsAreHistory /\ [][SuccessfulAddAppends]_vars

\* a third value was appended to a list while another list holds a value
C2_Witness ==
    /\ last.op = "add"
    /\ last.rc
    /\ Len(TagValueList(song, last.type)) >= 2
    /\ TagValueList(song, last.type)[Len(TagValueList(song, last.type))] = last.value
    /\ \E t \in TagTypes \ {last.type} : TagValueList(song, t) # <<>>

\* every linked node holds a value, and a head without a value has no next
NoNodeWithoutValue ==
    \A t \in TagTypes :
        /\ \A i \in 2 .. Len(song.tags[t]) : song.tags[t][i].value # NULL
        /\ song.tags[t][1].value = NULL => Len(song.tags[t]) = 1

\* a step in which add returned false left the song as it was
FailedAddChangesNothing ==
    last'.op = "add" /\ last'.rc = FALSE => song' = song

\* C3: whenever add returns false (category out of range, duplicate value,
\* allocation failure) the tag store is exactly what it was before the call:
\* no value added, no node linked without a value, no value changed.
C3_FailedAddNoMutation == []NoNodeWithoutValue /\ [][FailedAddChangesNothing]_vars

\* an allocation failed while a value was added to a list that holds values
C3_Witness ==
    /\ last.op = "add"
    /\ last.rc = FALSE
    /\ last.alloc = "failed"
    /\ TagValueList(song, last.type) # <<>>

\* what the renderers emit for a Title without values
TitleFallbackString(buf) ==
    IF TagValueList(song, MPD_TAG_NAME) # <<>>
    THEN last.out = buf \o JoinMapped(Plain, TagValueList(song, MPD_TAG_NAME), <<",", " ">>)
    ELSE /\ IsSuffix(basename_uri(song.uri), last.out)
         /\ buf = <<>> => last.out = basename_uri(song.uri)

TitleFallbackJson(buf) ==
    IF TagValueList(song, MPD_TAG_NAME) # <<>>
    THEN last.out = buf \o <<DQ>>
            \o JoinMapped(Escaped, TagValueList(song, MPD_TAG_NAME), <<",", " ">>)
            \o <<DQ>>
    ELSE last.out = buf \o Quoted(basename_uri(song.uri))

\* C4: for a Title without values both renderers emit the values of Name if
\* Name holds one, and otherwise the basename of the uri; the name is never
\* used when Title holds a value.
C4_TitleFallback ==
    /\ last.op = "string" /\ last.tag = MPD_TAG_TITLE =>
        IF TagValueList(song, MPD_TAG_TITLE) = <<>>
        THEN TitleFallbackString(last.buf)
        ELSE last.out = last.buf
                \o JoinMapped(Plain, TagValueList(song, MPD_TAG_TITLE), <<",", " ">>)
    /\ last.op = "json" /\ last.tag = MPD_TAG_TITLE =>
        IF TagValueList(song, MPD_TAG_TITLE) = <<>>
        THEN TitleFallbackJson(last.buf)
        ELSE last.out = last.buf \o <<DQ>>
                \o JoinMapped(Escaped, TagValueList(song, MPD_TAG_TITLE), <<",", " ">>)
                \o <<DQ>>

\* the Title of a song without Title values and with Name values was rendered
C4_Witness ==
    /\ last.op \in {"string", "json"}
    /\ last.tag = MPD_TAG_TITLE
    /\ TagValueList(song, MPD_TAG_TITLE) = <<>>
    /\ Len(TagValueList(song, MPD_TAG_NAME)) >= 2

\* C5: structured rendering of a category other than Title without values
\* emits exactly the placeholder, ["-"] for a multi-value category and "-" for
\* a single-value one; no requested category yields an empty array or an
\* empty fragment.
C5_EmptyPlaceholder ==
    last.op = "json" =>
        /\ last.tag # MPD_TAG_TITLE /\ TagValueList(song, last.tag) = <<>> =>
             last.out = last.buf \o (IF is_multivalue_tag(last.tag)
                                     THEN <<"[", DQ, "-", DQ, "]">>
                                     ELSE <<DQ, "-", DQ>>)
        /\ last.out # last.buf
        /\ last.out # last.buf \o <<"[", "]">>

\* a multi-value category without values was rendered into a used buffer
C5_Witness ==
    /\ last.op = "json"
    /\ last.tag = MPD_TAG_ARTIST
    /\ last.buf # <<>>
    /\ TagValueList(song, last.tag) = <<>>
    /\ TotalValues(song.tags) > 0

\* the MusicBrainz id categories
MusicBrainzIdTags ==
    {MPD_TAG_MUSICBRAINZ_ARTISTID, MPD_TAG_MUSICBRAINZ_ALBUMARTISTID}

\* the array of the elements a sole value splits into, each trimmed
SplitArray(value) ==
    <<"[">> \o JoinMapped(TrimmedQuoted, sdssplitlen(value, ";"), <<",">>) \o <<"]">>

\* the array of the values, one element per value
UnsplitArray(values) ==
    <<"[">> \o JoinMapped(Quoted, values, <<",">>) \o <<"]">>

\* C6 as stated: structured rendering of a MusicBrainz id category splits the
\* value on ';' into space-trimmed elements if and only if the store holds
\* exactly one value; with two or more values there is one element per
\* value, unsplit.
C6_MusicBrainzSplitAlways ==
    last.op = "json"
    /\ last.tag \in MusicBrainzIdTags
    /\ TagValueList(song, last.tag) # <<>> =>
        IF Len(TagValueList(song, last.tag)) = 1
        THEN last.out = last.buf \o SplitArray(TagValueList(song, last.tag)[1])
        ELSE last.out = last.buf \o UnsplitArray(TagValueList(song, last.tag))

\* C6 amended: as stated, except that a sole value that is the empty string
\* splits into no element and is rendered as the placeholder ["-"].
C6_MusicBrainzSplit ==
    last.op = "json"
    /\ last.tag \in MusicBrainzIdTags
    /\ TagValueList(song, last.tag) # <<>> =>
        IF Len(TagValueList(song, last.tag)) = 1
        THEN IF TagValueList(song, last.tag)[1] = <<>>
             THEN last.out = last.buf \o <<"[", DQ, "-", DQ, "]">>
             ELSE last.out = last.buf \o SplitArray(TagValueList(song, last.tag)[1])
        ELSE last.out = last.buf \o UnsplitArray(TagValueList(song, last.tag))

\* a MusicBrainz id category with two values, one of them holding a ';', was
\* rendered
C6_Witness ==
    /\ last.op = "json"
    /\ last.tag = MPD_TAG_MUSICBRAINZ_ARTISTID
    /\ Len(TagValueList(song, last.tag)) = 2
    /\ \E i \in 1 .. 2 : IndexOf(TagValueList(song, last.tag)[i], ";", 1) > 0

\* a sole MusicBrainz id value holding a ';' was rendered as two elements
C6_WitnessSplit ==
    /\ last.op = "json"
    /\ last.tag = MPD_TAG_MUSICBRAINZ_ARTISTID
    /\ TagValueList(song, last.tag) = << <<"A", ";", " ", "b">> >>
    /\ last.out = last.buf \o <<"[", DQ, "A", DQ, ",", DQ, "b", DQ, "]">>

\* the lower-cased plain join of the values of one category
PlainLower(t) ==
    sds_utf8_tolower(JoinMapped(Plain, TagValueList(song, t), <<",", " ">>))

\* C7: for a non-empty search string filter_mpd_song returns true if and only
\* if one enabled category's own values, joined with ", " unescaped and
\* lower-cased, contain the search string; for the empty one it returns true.
C7_FilterMatchesOwnValues ==
    last.op = "filter" =>
        IF last.searchstr = <<>> THEN last.rc = TRUE
        ELSE last.rc = (\E i \in 1 .. Len(last.tagcols) :
                            StrStr(PlainLower(last.tagcols[i]), last.searchstr))

\* ---------------------------------------------------------------- registry

\* the texts between the commas of a configuration string: "Artist", " Bogus",
\* " Title", "album " and the empty one
Pieces ==
    {<<"A", "r", "t", "i", "s", "t">>, <<" ", "B", "o", "g", "u", "s">>,
     <<" ", "T", "i", "t", "l", "e">>, <<"a", "l", "b", "u", "m", " ">>, <<>>}

PieceSeqs == UNION {[1 .. n -> Pieces] : n \in 1 .. MaxTokens}

\* the configuration string written from the pieces
RECURSIVE JoinPieces(_)
JoinPieces(ps) ==
    IF Len(ps) = 1 THEN ps[1]
    ELSE ps[1] \o <<",">> \o JoinPieces(Tail(ps))

\* the allow-lists: {Artist, Title, Album}, {Title, Artist} and the empty one
AllowLists ==
    {<<MPD_TAG_ARTIST, MPD_TAG_TITLE, MPD_TAG_ALBUM>>,
     <<MPD_TAG_TITLE, MPD_TAG_ARTIST>>, <<>>}

\* a mutant: every tag counts as present
tag_exists_always(tagtypes, tag) == TRUE

\* mpd_client_tag_exists(tagtypes, tag)
mpd_client_tag_exists(tagtypes, tag) ==
    \E i \in 1 .. Len(tagtypes) : tagtypes[i] = tag

\* the tag of token number i of check_tags: the token is trimmed and parsed
TokenTag(tokens, i) == mpd_tag_name_iparse(sdstrim(tokens[i], " "))

\* check_tags is entered with an empty tagtypes; pieces records what the
\* configuration string was written from
InitReg ==
    \E ps \in PieceSeqs, allowed \in AllowLists :
        reg = [pc |-> "split", pieces |-> ps, taglist |-> JoinPieces(ps),
               allowed_tag_types |-> allowed, tagtypes |-> <<>>,
               tokens |-> <<>>, i |-> 0]

\* check_tags: the configuration string is split at the commas
CheckTagsSplit ==
    /\ reg.pc = "split"
    /\ reg' = [reg EXCEPT !.pc = "loop",
                          !.tokens = sdssplitlen(reg.taglist, ","),
                          !.i = 0]
    /\ UNCHANGED <<song, inserted, last, file>>

\* check_tags: a token that names no tag is logged and skipped
CheckTagsUnknown ==
    /\ reg.pc = "loop"
    /\ reg.i < Len(reg.tokens)
    /\ TokenTag(reg.tokens, reg.i + 1) = MPD_TAG_UNKNOWN
    /\ reg' = [reg EXCEPT !.i = @ + 1]
    /\ UNCHANGED <<song, inserted, last, file>>

\* check_tags: an allowed tag is stored at tagtypes->tags[tagtypes->len++]
CheckTagsEnable ==
    /\ reg.pc = "loop"
    /\ reg.i < Len(reg.tokens)
    /\ TokenTag(reg.tokens, reg.i + 1) # MPD_TAG_UNKNOWN
    /\ mpd_client_tag_exists(reg.allowed_tag_types, TokenTag(reg.tokens, reg.i + 1))
    /\ reg' = [reg EXCEPT !.i = @ + 1,
                          !.tagtypes = Append(@, TokenTag(reg.tokens, reg.i + 1))]
    /\ UNCHANGED <<song, inserted, last, file>>

\* check_tags: a tag that is not allowed is logged and skipped
CheckTagsDisable ==
    /\ reg.pc = "loop"
    /\ reg.i < Len(reg.tokens)
    /\ TokenTag(reg.tokens, reg.i + 1) # MPD_TAG_UNKNOWN
    /\ ~mpd_client_tag_exists(reg.allowed_tag_types, TokenTag(reg.tokens, reg.i + 1))
    /\ reg' = [reg EXCEPT !.i = @ + 1]
    /\ UNCHANGED <<song, inserted, last, file>>

\* check_tags: the loop ends after the last token
CheckTagsReturn ==
    /\ reg.pc = "loop"
    /\ reg.i >= Len(reg.tokens)
    /\ reg' = [reg EXCEPT !.pc = "done"]
    /\ UNCHANGED <<song, inserted, last, file>>

InitRegistry ==
    /\ song = SongOff /\ inserted = <<>> /\ last = NoCall
    /\ InitReg
    /\ file = FileOff

NextRegistry ==
    \/ CheckTagsSplit
    \/ CheckTagsUnknown
    \/ CheckTagsEnable
    \/ CheckTagsDisable
    \/ CheckTagsReturn

\* one run of check_tags over a configuration string and an allow-list
SpecRegistry == InitRegistry /\ [][NextRegistry]_vars

\* ---------------------------------------------------------- registry: claims

\* the tag a piece of the configuration names, MPD_TAG_UNKNOWN if none
PieceTag(piece) ==
    CASE piece = <<"A", "r", "t", "i", "s", "t">> -> MPD_TAG_ARTIST
      [] piece = <<" ", "T", "i", "t", "l", "e">> -> MPD_TAG_TITLE
      [] piece = <<"a", "l", "b", "u", "m", " ">> -> MPD_TAG_ALBUM
      [] OTHER -> MPD_TAG_UNKNOWN

\* the tags of the first n pieces that name an allowed tag, in their order
RECURSIVE AllowedNamed(_, _, _)
AllowedNamed(ps, allowed, n) ==
    IF n = 0 THEN <<>>
    ELSE IF PieceTag(ps[n]) \in {allowed[k] : k \in 1 .. Len(allowed)}
    THEN Append(AllowedNamed(ps, allowed, n - 1), PieceTag(ps[n]))
    ELSE AllowedNamed(ps, allowed, n - 1)

\* C8: the enabled set holds only allowed categories, none from a token that
\* names no tag, in the order of their tokens in the configuration string; an
\* unknown or disallowed token does not stop the tokens after it.
C8_EnabledFromAllowList ==
    reg.pc = "done" =>
        /\ \A k \in 1 .. Len(reg.tagtypes) :
              /\ reg.tagtypes[k] # MPD_TAG_UNKNOWN
              /\ \E j \in 1 .. Len(reg.allowed_tag_types) :
                    reg.allowed_tag_types[j] = reg.tagtypes[k]
        /\ reg.tagtypes
              = AllowedNamed(reg.pieces, reg.allowed_tag_types, Len(reg.pieces))

\* "Artist, Bogus, Title" was processed with an allow-list without Album
C8_Witness ==
    /\ reg.pc = "done"
    /\ reg.pieces = <<<<"A", "r", "t", "i", "s", "t">>, <<" ", "B", "o", "g", "u", "s">>,
                      <<" ", "T", "i", "t", "l", "e">>>>
    /\ reg.allowed_tag_types = <<MPD_TAG_TITLE, MPD_TAG_ARTIST>>
    /\ reg.tagtypes = <<MPD_TAG_ARTIST, MPD_TAG_TITLE>>

\* C9: a category named more than once is enabled once: no category occurs
\* twice in the enabled set, and its length is the number of distinct allowed
\* categories the configuration names.
C9_EnabledOnce ==
    reg.pc = "done" =>
        /\ \A j, k \in 1 .. Len(reg.tagtypes) :
              reg.tagtypes[j] = reg.tagtypes[k] => j = k
        /\ Len(reg.tagtypes)
              = Cardinality({PieceTag(reg.pieces[n]) : n \in 1 .. Len(reg.pieces)}
                            \cap {reg.allowed_tag_types[k] :
                                    k \in 1 .. Len(reg.allowed_tag_types)})

\* ------------------------------------------------------------- file writer

\* no file of that name exists
NoFile == <<"ENOENT">>

\* the data written: "ab" and "c"
Datas == {<<"a", "b">>, <<"c">>}

\* the destination before the first call: missing, or holding "o"
OldFiles == {NoFile, <<"o">>}

\* file:
\*   dest, tmp   the content of the destination and of the temporary file
\*   old         the destination's content when write_data_to_file was entered
\*   data        the data argument
\*   tmp_file    the sds string of the temporary name: "none", "live", "freed"
\*   fp          the stream: "null", "open", "closed"
\*   write_rc    fwrite wrote all the data
\*   close_ok    fclose returned 0
\*   unlink_err  an unlink of rm_file failed
\*   failed      the step of this call that failed: "none", "open", "write",
\*               "close", "rename"
\*   rc          what rename_tmp_file returned
\*   ret         what write_data_to_file returned: "none", "true", "false"
\*   calls       the number of calls so far
InitFileWriter ==
    \E old \in OldFiles :
        file = [pc |-> "idle", dest |-> old, tmp |-> NoFile, old |-> old,
                data |-> <<>>, tmp_file |-> "none", fp |-> "null",
                write_rc |-> FALSE, close_ok |-> FALSE, unlink_err |-> FALSE,
                failed |-> "none", rc |-> FALSE, ret |-> "none", calls |-> 0]

FileUnchanged == UNCHANGED <<song, inserted, last, reg>>

\* write_data_to_file is entered: tmp_file = sdscatfmt(...)
WriteDataToFile ==
    /\ file.pc = "idle"
    /\ file.calls < MaxWrites
    /\ \E data \in Datas :
        file' = [file EXCEPT !.pc = "open", !.old = file.dest, !.data = data,
                             !.tmp_file = "live", !.fp = "null",
                             !.write_rc = FALSE, !.close_ok = FALSE,
                             !.unlink_err = FALSE, !.failed = "none",
                             !.rc = FALSE, !.ret = "none", !.calls = @ + 1]
    /\ FileUnchanged

\* open_tmp_file: mkstemp fails, no file is created; write_data_to_file frees
\* tmp_file and returns false
OpenMkstempFails ==
    /\ file.pc = "open"
    /\ file' = [file EXCEPT !.pc = "idle", !.tmp_file = "freed",
                            !.failed = "open", !.ret = "false"]
    /\ FileUnchanged

\* open_tmp_file: mkstemp creates the file and fdopen fails; the file stays,
\* write_data_to_file frees tmp_file and returns false
OpenFdopenFails ==
    /\ file.pc = "open"
    /\ file' = [file EXCEPT !.pc = "idle", !.tmp = <<>>, !.tmp_file = "freed",
                            !.failed = "open", !.ret = "false"]
    /\ FileUnchanged

\* open_tmp_file returns a stream on the new, empty temporary file
OpenTmpFile ==
    /\ file.pc = "open"
    /\ file' = [file EXCEPT !.pc = "write", !.tmp = <<>>, !.fp = "open"]
    /\ FileUnchanged

\* fwrite(data, 1, data_len, fp) writes the first written bytes;
\* write_rc = (written == data_len)
Fwrite ==
    /\ file.pc = "write"
    /\ \E written \in 0 .. Len(file.data) :
        file' = [file EXCEPT !.pc = "close",
                             !.tmp = SubSeq(file.data, 1, written),
                             !.write_rc = (written = Len(file.data)),
                             !.failed = IF written = Len(file.data)
                                        THEN "none" ELSE "write"]
    /\ FileUnchanged

\* rm_file(filepath): the file is unlinked, or unlink fails and it stays
rm_file(f, unlink_err) ==
    IF unlink_err THEN [f EXCEPT !.unlink_err = TRUE]
    ELSE [f EXCEPT !.tmp = NoFile]

\* the first condition of rename_tmp_file: fclose(fp) != 0 || write_rc == false
CloseFailedOrShort(close_ok, write_rc) == ~close_ok \/ write_rc = FALSE

\* rename_tmp_file: fclose failed or the write was short: the temporary file
\* is removed, tmp_file is freed and false is returned
RenameTmpFileGiveUp ==
    /\ file.pc = "close"
    /\ \E unlink_err \in BOOLEAN, close_ok \in BOOLEAN :
        /\ CloseFailedOrShort(close_ok, file.write_rc)
        /\ file' = [rm_file(file, unlink_err)
                        EXCEPT !.pc = "free", !.fp = "closed",
                               !.close_ok = close_ok,
                               !.failed = IF file.failed = "none"
                                          THEN "close" ELSE file.failed,
                               !.tmp_file = "freed", !.rc = FALSE]
    /\ FileUnchanged

\* rename_tmp_file: rename(tmp_file, filepath) replaces the destination
RenameTmpFile ==
    /\ file.pc = "close"
    /\ ~CloseFailedOrShort(TRUE, file.write_rc)
    /\ file' = [file EXCEPT !.pc = "free", !.fp = "closed", !.close_ok = TRUE,
                            !.dest = file.tmp, !.tmp = NoFile, !.rc = TRUE]
    /\ FileUnchanged

\* rename_tmp_file: rename fails: the temporary file is removed and false is
\* returned; tmp_file is not freed here
RenameTmpFileFails ==
    /\ file.pc = "close"
    /\ ~CloseFailedOrShort(TRUE, file.write_rc)
    /\ \E unlink_err \in BOOLEAN :
        file' = [rm_file(file, unlink_err)
                    EXCEPT !.pc = "free", !.fp = "closed", !.close_ok = TRUE,
                           !.failed = "rename", !.rc = FALSE]
    /\ FileUnchanged

\* write_data_to_file: FREE_SDS(tmp_file) of a live string, then return rc
FreeTmpFile ==
    /\ file.pc = "free"
    /\ file.tmp_file = "live"
    /\ file' = [file EXCEPT !.pc = "idle", !.tmp_file = "freed",
                            !.ret = IF file.rc THEN "true" ELSE "false"]
    /\ FileUnchanged

\* write_data_to_file: FREE_SDS(tmp_file) of the string rename_tmp_file has
\* freed: the allocator aborts the process, or the call returns rc over a
\* damaged heap
FreeTmpFileAgain ==
    /\ file.pc = "free"
    /\ file.tmp_file = "freed"
    /\ \/ file' = [file EXCEPT !.pc = "aborted", !.tmp_file = "freed twice"]
       \/ file' = [file EXCEPT !.pc = "idle", !.tmp_file = "freed twice",
                               !.ret = IF file.rc THEN "true" ELSE "false"]
    /\ FileUnchanged

InitFile ==
    /\ song = SongOff /\ inserted = <<>> /\ last = NoCall
    /\ reg = RegOff
    /\ InitFileWriter

NextFile ==
    \/ WriteDataToFile
    \/ OpenMkstempFails
    \/ OpenFdopenFails
    \/ OpenTmpFile
    \/ Fwrite
    \/ RenameTmpFileGiveUp
    \/ RenameTmpFile
    \/ RenameTmpFileFails
    \/ FreeTmpFile
    \/ FreeTmpFileAgain

\* calls of write_data_to_file, one after the other
SpecFile == InitFile /\ [][NextFile]_vars

\* ------------------------------------------------------- file writer: claims

\* the call is over: it returned or the process was aborted in it
CallOver == file.pc \in {"idle", "aborted"} /\ file.calls > 0

\* C10: write_data_to_file replaces the destination only by renaming the
\* temporary file after the full data was written and the file closed; on a
\* write, close or rename failure it returns false, the temporary file is
\* removed (when unlink works) and the destination keeps its content.
C10_AtomicReplace ==
    /\ file.pc # "off" /\ file.calls > 0 =>
          \/ file.dest = file.old
          \/ file.dest = file.data /\ file.write_rc /\ file.close_ok
    /\ CallOver /\ file.failed \in {"write", "close", "rename"} =>
          /\ file.pc = "idle"
          /\ file.ret = "false"
          /\ ~file.unlink_err => file.tmp = NoFile
          /\ file.dest = file.old

\* ------------------------------------------------------------- song record

Digits == <<"0", "1", "2", "3", "4", "5", "6", "7", "8", "9">>

\* the decimal text of a number, as the %u, %l and %I of sdscatfmt print it
RECURSIVE NumberText(_)
NumberText(n) ==
    IF n < 0 THEN <<"-">> \o NumberText(0 - n)
    ELSE IF n < Len(Digits) THEN <<Digits[n + 1]>>
    ELSE NumberText(n \div Len(Digits)) \o <<Digits[(n % Len(Digits)) + 1]>>

\* sdscatfmt(buffer, "\"%s\":", key)
JsonKey(buffer, key) == buffer \o <<DQ>> \o key \o <<DQ, ":">>

Comma(buffer, comma) == IF comma THEN buffer \o <<",">> ELSE buffer

\* tojson_uint, tojson_long, tojson_llong(buffer, key, value, comma)
tojson_number(buffer, key, value, comma) ==
    Comma(JsonKey(buffer, key) \o NumberText(value), comma)

\* tojson_char, tojson_sds(buffer, key, value, comma)
tojson_char(buffer, key, value, comma) ==
    Comma(sds_catjson(JsonKey(buffer, key), value), comma)

KeyTitle == <<"T", "i", "t", "l", "e">>
KeyDuration == <<"D", "u", "r", "a", "t", "i", "o", "n">>
KeyLastModified == <<"L", "a", "s", "t", "M", "o", "d", "i", "f", "i", "e", "d">>
KeyUri == <<"u", "r", "i">>

\* the loop of get_song_tags from column tagnr on
RECURSIVE SongTagsLoop(_, _, _, _)
SongTagsLoop(buffer, tagcols, tagnr, s) ==
    IF tagnr > Len(tagcols) THEN buffer
    ELSE SongTagsLoop(
            mpd_client_get_tag_values(s, tagcols[tagnr],
                JsonKey(buffer, mpd_tag_name(tagcols[tagnr]))) \o <<",">>,
            tagcols, tagnr + 1, s)

\* get_song_tags(buffer, mpd_state, tagcols, song)
get_song_tags(buffer, feat_mpd_tags, tagcols, s) ==
    LET tags == IF feat_mpd_tags
                THEN SongTagsLoop(buffer, tagcols, 1, s)
                ELSE mpd_client_get_tag_values(s, MPD_TAG_TITLE,
                        JsonKey(buffer, KeyTitle)) \o <<",">>
    IN  tojson_char(
            tojson_number(
                tojson_number(tags, KeyDuration, s.duration, TRUE),
                KeyLastModified, s.last_modified, TRUE),
            KeyUri, s.uri, FALSE)

\* a mutant: the placeholder of a multi-value tag is not put in brackets
EmptySongTagBare(buffer, tag, filename) ==
    (IF tag = MPD_TAG_TITLE
     THEN sds_catjson(JsonKey(buffer, mpd_tag_name(tag)), filename)
     ELSE JsonKey(buffer, mpd_tag_name(tag)) \o <<DQ, "-", DQ>>) \o <<",">>

\* one round of the loop of get_empty_song_tags: the key, the file name for
\* the Title and the dash for every other tag, in brackets for a multi-value tag
EmptySongTag(buffer, tag, filename) ==
    LET multi == is_multivalue_tag(tag)
        opened == IF multi THEN JsonKey(buffer, mpd_tag_name(tag)) \o <<"[">>
                  ELSE JsonKey(buffer, mpd_tag_name(tag))
        valued == IF tag = MPD_TAG_TITLE THEN sds_catjson(opened, filename)
                  ELSE opened \o <<DQ, "-", DQ>>
        closed == IF multi THEN valued \o <<"]">> ELSE valued
    IN  closed \o <<",">>

\* the loop of get_empty_song_tags from column tagnr on
RECURSIVE EmptySongTagsLoop(_, _, _, _)
EmptySongTagsLoop(buffer, tagcols, tagnr, filename) ==
    IF tagnr > Len(tagcols) THEN buffer
    ELSE EmptySongTagsLoop(EmptySongTag(buffer, tagcols[tagnr], filename),
                           tagcols, tagnr + 1, filename)

\* get_empty_song_tags(buffer, mpd_state, tagcols, uri)
get_empty_song_tags(buffer, feat_mpd_tags, tagcols, uri) ==
    LET filename == basename_uri(uri)
        tags == IF feat_mpd_tags
                THEN EmptySongTagsLoop(buffer, tagcols, 1, filename)
                ELSE tojson_char(buffer, KeyTitle, filename, TRUE)
    IN  tojson_char(
            tojson_number(
                tojson_number(tags, KeyDuration, 0, TRUE),
                KeyLastModified, 0, TRUE),
            KeyUri, uri, FALSE)

\* the uris of the records: "d/F.m" and "G"
RecordURIs == URIs \cup {<<"G">>}

\* the durations and modification times of a song
Durations == {0, 7}
ModTimes == {0, 12}

\* the columns of a record
RecordCols ==
    {<<>>, <<MPD_TAG_TITLE, MPD_TAG_ARTIST, MPD_TAG_ALBUM>>,
     <<MPD_TAG_MUSICBRAINZ_ARTISTID, MPD_TAG_NAME, MPD_TAG_TITLE>>}

\* the tags and values a song of a record is filled with
RecordAddTypes == {MPD_TAG_TITLE, MPD_TAG_ARTIST}
RecordValues == {<<"A", ";", " ", "b">>, <<"b", DQ>>}

InitRecord ==
    /\ song \in [uri : RecordURIs, tags : {[t \in TagTypes |-> EmptyList]},
                 duration : Durations, last_modified : {0}]
    /\ inserted = <<>>
    /\ last = NoCall
    /\ reg = RegOff
    /\ file = FileOff

\* a call of mympd_mpd_song_add_tag_dedup while the song is filled
AddRecordTag ==
    \E type \in RecordAddTypes, value \in RecordValues :
        LET r == mympd_mpd_song_add_tag_dedup(song.tags, type, value, TRUE)
        IN  /\ TotalValues(r.tags) <= MaxSongValues
            /\ song' = [song EXCEPT !.tags = r.tags]
            /\ last' = [op |-> "add", type |-> type, value |-> value,
                        rc |-> r.rc, alloc |-> r.alloc, again |-> FALSE]
            /\ UNCHANGED <<inserted, reg, file>>

\* mympd_mpd_song_set_last_modified(song, last_modified)
SetLastModified ==
    \E last_modified \in ModTimes :
        /\ song' = [song EXCEPT !.last_modified = last_modified]
        /\ last' = [op |-> "set_last_modified"]
        /\ UNCHANGED <<inserted, reg, file>>

\* a call of get_song_tags
GetSongTags ==
    \E buf \in Buffers, feat \in BOOLEAN, tagcols \in RecordCols :
        /\ last' = [op |-> "song_tags", buf |-> buf, feat |-> feat,
                    tagcols |-> tagcols,
                    out |-> get_song_tags(buf, feat, tagcols, song)]
        /\ UNCHANGED <<song, inserted, reg, file>>

\* a call of get_empty_song_tags
GetEmptySongTags ==
    \E buf \in Buffers, feat \in BOOLEAN, tagcols \in RecordCols,
       uri \in RecordURIs :
        /\ last' = [op |-> "empty_song_tags", buf |-> buf, feat |-> feat,
                    tagcols |-> tagcols, uri |-> uri,
                    out |-> get_empty_song_tags(buf, feat, tagcols, uri)]
        /\ UNCHANGED <<song, inserted, reg, file>>

NextRecord == AddRecordTag \/ SetLastModified \/ GetSongTags \/ GetEmptySongTags

\* a song is filled and rendered as a record, and empty records are rendered
SpecRecord == InitRecord /\ [][NextRecord]_vars

\* ------------------------------------------------------ song record: claims

\* a song with that uri, no tag value, duration 0 and last-modified 0
UnknownSong(uri) ==
    [uri |-> uri, tags |-> [t \in TagTypes |-> EmptyList],
     duration |-> 0, last_modified |-> 0]

\* the song holds no tag value, its duration and last-modified are 0
SongIsUnknown ==
    /\ \A t \in TagTypes : TagValueList(song, t) = <<>>
    /\ song.duration = 0
    /\ song.last_modified = 0

\* the value of one column of an empty record
EmptyColumn(tag, uri) ==
    IF tag = MPD_TAG_TITLE THEN Quoted(basename_uri(uri))
    ELSE IF is_multivalue_tag(tag) THEN <<"[", DQ, "-", DQ, "]">>
    ELSE <<DQ, "-", DQ>>

\* the columns of an empty record from column n on
RECURSIVE EmptyColumns(_, _, _)
EmptyColumns(tagcols, n, uri) ==
    IF n > Len(tagcols) THEN <<>>
    ELSE <<DQ>> \o mpd_tag_name(tagcols[n]) \o <<DQ, ":">>
         \o EmptyColumn(tagcols[n], uri) \o <<",">>
         \o EmptyColumns(tagcols, n + 1, uri)

\* the empty record: the columns, or the Title alone without tag support,
\* then Duration 0, LastModified 0 and the uri
EmptyRecord(feat, tagcols, uri) ==
    (IF feat THEN EmptyColumns(tagcols, 1, uri)
     ELSE <<DQ>> \o KeyTitle \o <<DQ, ":">> \o EmptyColumn(MPD_TAG_TITLE, uri) \o <<",">>)
    \o <<DQ>> \o KeyDuration \o <<DQ, ":", "0", ",">>
    \o <<DQ>> \o KeyLastModified \o <<DQ, ":", "0", ",">>
    \o <<DQ>> \o KeyUri \o <<DQ, ":">> \o Quoted(uri)

\* C11: the record of get_empty_song_tags equals the record get_song_tags
\* produces for a song with that uri, no tag values, duration 0 and
\* last-modified 0: Title is the uri basename, every other category the
\* placeholder, in brackets exactly for a multi-value category, and Duration
\* and LastModified are 0.
C11_EmptyRecordEqualsSongRecord ==
    /\ last.op = "empty_song_tags" =>
        /\ last.out = get_song_tags(last.buf, last.feat, last.tagcols,
                                    UnknownSong(last.uri))
        /\ last.out = last.buf \o EmptyRecord(last.feat, last.tagcols, last.uri)
    /\ last.op = "song_tags" /\ SongIsUnknown =>
        last.out = get_empty_song_tags(last.buf, last.feat, last.tagcols, song.uri)

\* an empty record with a Title, a multi-value and a single-value column was
\* rendered into a used buffer
C11_Witness ==
    /\ last.op = "empty_song_tags"
    /\ last.feat
    /\ last.buf # <<>>
    /\ last.tagcols = <<MPD_TAG_TITLE, MPD_TAG_ARTIST, MPD_TAG_ALBUM>>
    /\ last.uri = <<"d", "/", "F", ".", "m">>

\* a song without tag values, duration and last-modified 0 was rendered
C11_WitnessSong ==
    /\ last.op = "song_tags"
    /\ SongIsUnknown
    /\ last.feat
    /\ Len(last.tagcols) = 3

\* ------------------------------------------- file writer: the path string

\* C12: on every path of write_data_to_file the temporary-path string it
\* allocated is released exactly once: it is never released a second time and
\* never used after its release, and it is released when the call is over.
C12_TmpFileFreedOnce ==
    /\ file.pc # "off" => file.tmp_file # "freed twice"
    /\ CallOver => file.pc = "idle" /\ file.tmp_file = "freed"

====
